---- MODULE Spec2Model ----
(***************************************************************************)
(* A model of the receipt processor (src/Main.go): the in-memory receipt   *)
(* store guarded by storageMutex, the two HTTP handlers processReceipt and *)
(* getPoints, and the scoring function computePoints.                      *)
(*                                                                         *)
(* Text is modelled as a sequence of one-character strings, one per rune,  *)
(* so that "10.00" is <<"1","0",".","0","0">>.  A Go len() counts bytes:   *)
(* it is the ByteLen of the sequence.  A rune up to U+00FF is written as    *)
(* the character itself, a rune beyond as its name, "U+20AC" for the euro  *)
(* sign: the runes beyond are those of the table WideRunes.                *)
(***************************************************************************)
EXTENDS Integers, Sequences, FiniteSets, TLC

(***************************************************************************)
(* Bounds of the model.                                                    *)
(***************************************************************************)
\* The largest number of items of a scored receipt.
MaxItems == 2
\* The number of identifiers uuid.New() can mint before the model stops
\* accepting submissions.
MaxIds == 2

(***************************************************************************)
(* Runes.                                                                  *)
(***************************************************************************)
Digits == <<"0", "1", "2", "3", "4", "5", "6", "7", "8", "9">>

IsDigit(c) == \E i \in 1..Len(Digits) : Digits[i] = c

DigitVal(c) == (CHOOSE i \in 1..Len(Digits) : Digits[i] = c) - 1

LowerLetters ==
    {"a", "b", "c", "d", "e", "f", "g", "h", "i", "j", "k", "l", "m",
     "n", "o", "p", "q", "r", "s", "t", "u", "v", "w", "x", "y", "z"}

UpperLetters ==
    {"A", "B", "C", "D", "E", "F", "G", "H", "I", "J", "K", "L", "M",
     "N", "O", "P", "Q", "R", "S", "T", "U", "V", "W", "X", "Y", "Z"}

\* The letters that are hexadecimal digits, by value less ten.
HexLower == <<"a", "b", "c", "d", "e", "f">>

HexUpper == <<"A", "B", "C", "D", "E", "F">>

IsHexLetter(c) == \E i \in 1..Len(HexLower) : c \in {HexLower[i], HexUpper[i]}

\* The value of a decimal or hexadecimal digit.
HexVal(c) ==
    IF IsDigit(c) THEN DigitVal(c)
    ELSE 9 + (CHOOSE i \in 1..Len(HexLower) : c \in {HexLower[i], HexUpper[i]})

\* The vertical tab (U+000B) and the no-break space (U+00A0), written as
\* the characters themselves.
VerticalTab == ""

NoBreakSpace == " "

\* The runes beyond U+00FF, by name, with their code points: the white
\* space U+1680, U+2000..U+200A, U+2028, U+2029, U+202F, U+205F and U+3000,
\* and U+0100, U+07FF, U+0800, U+180E, U+200B, U+20AC, U+FEFF, U+FFFD,
\* U+10000, U+1F600 and U+10FFFF.
WideRunes ==
    ("U+1680" :> 5760) @@ ("U+2000" :> 8192) @@ ("U+2001" :> 8193) @@
        ("U+2002" :> 8194) @@ ("U+2003" :> 8195) @@ ("U+2004" :> 8196) @@
        ("U+2005" :> 8197) @@ ("U+2006" :> 8198) @@ ("U+2007" :> 8199) @@
        ("U+2008" :> 8200) @@ ("U+2009" :> 8201) @@ ("U+200A" :> 8202) @@
        ("U+2028" :> 8232) @@ ("U+2029" :> 8233) @@ ("U+202F" :> 8239) @@
        ("U+205F" :> 8287) @@ ("U+3000" :> 12288) @@ ("U+0100" :> 256) @@
        ("U+07FF" :> 2047) @@ ("U+0800" :> 2048) @@ ("U+180E" :> 6158) @@
        ("U+200B" :> 8203) @@ ("U+20AC" :> 8364) @@ ("U+FEFF" :> 65279) @@
        ("U+FFFD" :> 65533) @@ ("U+10000" :> 65536) @@
        ("U+1F600" :> 128512) @@ ("U+10FFFF" :> 1114111)

\* unicode.IsSpace, the white space strings.TrimSpace cuts: up to U+00FF
\* the runes \t, \n, \v, \f, \r, the space, U+0085 (written as the
\* character itself) and U+00A0; beyond, by code point, U+1680,
\* U+2000..U+200A, U+2028, U+2029, U+202F, U+205F and U+3000.
UnicodeSpace ==
    {" ", "\t", "\n", VerticalTab, "\f", "\r", "", NoBreakSpace}
        \cup {c \in DOMAIN WideRunes :
                 WideRunes[c] \in {5760} \cup (8192..8202)
                                     \cup {8232, 8233, 8239, 8287, 12288}}

\* The class \s of package regexp, [\t\n\f\r ]: \S is every other rune, the
\* vertical tab among them.
PerlSpace == {" ", "\t", "\n", "\f", "\r"}

\* The runes U+0080..U+00FF, written as the characters themselves.
TwoByteRunes ==
    {"", "", "", "", "", "", "", "", "", "", "", "", "", "", "", "",
     "", "", "", "", "", "", "", "", "", "", "", "", "", "", "", "",
     " ", "¡", "¢", "£", "¤", "¥", "¦", "§", "¨", "©", "ª", "«", "¬", "­", "®", "¯",
     "°", "±", "²", "³", "´", "µ", "¶", "·", "¸", "¹", "º", "»", "¼", "½", "¾", "¿",
     "À", "Á", "Â", "Ã", "Ä", "Å", "Æ", "Ç", "È", "É", "Ê", "Ë", "Ì", "Í", "Î", "Ï",
     "Ð", "Ñ", "Ò", "Ó", "Ô", "Õ", "Ö", "×", "Ø", "Ù", "Ú", "Û", "Ü", "Ý", "Þ", "ß",
     "à", "á", "â", "ã", "ä", "å", "æ", "ç", "è", "é", "ê", "ë", "ì", "í", "î", "ï",
     "ð", "ñ", "ò", "ó", "ô", "õ", "ö", "÷", "ø", "ù", "ú", "û", "ü", "ý", "þ", "ÿ"}

\* The number of bytes of the rune in UTF-8: one up to U+007F, two up to
\* U+07FF, three up to U+FFFF and four beyond.
Utf8Len(c) ==
    IF c \in DOMAIN WideRunes
    THEN (IF WideRunes[c] < 2048 THEN 2
          ELSE IF WideRunes[c] < 65536 THEN 3
          ELSE 4)
    ELSE IF c \in TwoByteRunes THEN 2
    ELSE 1

\* len(s): the number of bytes of the text.
RECURSIVE ByteLen(_)
ByteLen(s) == IF s = <<>> THEN 0 ELSE Utf8Len(Head(s)) + ByteLen(Tail(s))

\* func isAlphanumeric(char rune) bool
isAlphanumeric(char) ==
    char \in LowerLetters \/ char \in UpperLetters \/ IsDigit(char)

(***************************************************************************)
(* The string functions computePoints and getPoints call.                  *)
(***************************************************************************)
\* strings.HasSuffix(s, suffix)
HasSuffix(s, suffix) ==
    /\ Len(s) >= Len(suffix)
    /\ SubSeq(s, Len(s) - Len(suffix) + 1, Len(s)) = suffix

\* strings.HasPrefix(s, prefix)
HasPrefix(s, prefix) ==
    /\ Len(s) >= Len(prefix)
    /\ SubSeq(s, 1, Len(prefix)) = prefix

\* strings.TrimPrefix(s, prefix): s without the prefix, or s itself.
TrimPrefix(s, prefix) ==
    IF HasPrefix(s, prefix) THEN SubSeq(s, Len(prefix) + 1, Len(s)) ELSE s

\* strings.TrimSuffix(s, suffix): s without the suffix, or s itself.
TrimSuffix(s, suffix) ==
    IF HasSuffix(s, suffix) THEN SubSeq(s, 1, Len(s) - Len(suffix)) ELSE s

\* strings.TrimSpace(s): s without its leading and trailing white space.
TrimSpace(s) ==
    LET keep == {i \in 1..Len(s) : s[i] \notin UnicodeSpace}
    IN  IF keep = {} THEN <<>>
        ELSE LET lo == CHOOSE i \in keep : \A j \in keep : i <= j
                 hi == CHOOSE i \in keep : \A j \in keep : j <= i
             IN  SubSeq(s, lo, hi)

\* strings.Split(s, sep) for a one-character sep: the pieces between the
\* separators, one more than there are separators (a single piece, s itself,
\* when there is none; <<>> is the empty piece).
RECURSIVE Split(_, _)
Split(s, sep) ==
    LET at == {i \in 1..Len(s) : s[i] = sep}
    IN  IF at = {} THEN <<s>>
        ELSE LET first == CHOOSE i \in at : \A j \in at : i <= j
             IN  <<SubSeq(s, 1, first - 1)>>
                     \o Split(SubSeq(s, first + 1, Len(s)), sep)

(***************************************************************************)
(* Natural numbers of any size.  An int of the program has 64 bits and the *)
(* fraction of a float64 has 53, while the integers TLC computes with have *)
(* 32: a natural number is kept as the sequence of its digits in base      *)
(* 2^15, the lowest first and the highest not 0.  0 is <<>>, 12 is <<12>>  *)
(* and 32768 is <<0, 1>>.                                                  *)
(***************************************************************************)
LimbBits == 15

Limb == 32768

RECURSIVE Pow(_, _)
Pow(b, n) == IF n = 0 THEN 1 ELSE b * Pow(b, n - 1)

\* The number of digits of n in base b (0 for n = 0), for an n below 2^31.
RECURSIVE Width(_, _)
Width(n, b) == IF n = 0 THEN 0 ELSE 1 + Width(n \div b, b)

\* The natural number n, for an n below 2^31.
RECURSIVE NatOf(_)
NatOf(n) == IF n = 0 THEN <<>> ELSE <<n % Limb>> \o NatOf(n \div Limb)

\* The digits without the zeros at their top.
RECURSIVE Trim(_)
Trim(a) ==
    IF a # <<>> /\ a[Len(a)] = 0 THEN Trim(SubSeq(a, 1, Len(a) - 1)) ELSE a

\* The i-th digit of a, 0 past the top.
LimbAt(a, i) == IF i <= Len(a) THEN a[i] ELSE 0

\* a + b + c, for a carry c of 0 or 1: digit by digit from the lowest.
RECURSIVE AddCarry(_, _, _)
AddCarry(a, b, c) ==
    IF a = <<>> /\ b = <<>> THEN NatOf(c)
    ELSE <<(LimbAt(a, 1) + LimbAt(b, 1) + c) % Limb>>
             \o AddCarry(SubSeq(a, 2, Len(a)), SubSeq(b, 2, Len(b)),
                         (LimbAt(a, 1) + LimbAt(b, 1) + c) \div Limb)

\* a * k + c, for 0 < k < 2^15 and 0 <= c < 2^15.
RECURSIVE MulSmall(_, _, _)
MulSmall(a, k, c) ==
    IF a = <<>> THEN NatOf(c)
    ELSE <<(Head(a) * k + c) % Limb>>
             \o MulSmall(Tail(a), k, (Head(a) * k + c) \div Limb)

\* a * b: a times the lowest digit of b, and 2^15 times a times the rest.
RECURSIVE Mul(_, _)
Mul(a, b) ==
    IF a = <<>> \/ b = <<>> THEN <<>>
    ELSE AddCarry(IF Head(b) = 0 THEN <<>> ELSE MulSmall(a, Head(b), 0),
                  Trim(<<0>> \o Mul(a, Tail(b))), 0)

\* a \div d and a % d, for 0 < d < 2^15: [q, r], q with zeros at its top.
\* hi is the result for the digits above the lowest, low the lowest digit.
DivStep(hi, low, d) ==
    [q |-> <<(hi.r * Limb + low) \div d>> \o hi.q,
     r |-> (hi.r * Limb + low) % d]

RECURSIVE DivRem(_, _)
DivRem(a, d) ==
    IF a = <<>> THEN [q |-> <<>>, r |-> 0]
    ELSE DivStep(DivRem(Tail(a), d), Head(a), d)

\* a * 2^n.
ShiftLeft(a, n) ==
    IF a = <<>> THEN <<>>
    ELSE [i \in 1..(n \div LimbBits) |-> 0]
             \o MulSmall(a, Pow(2, n % LimbBits), 0)

\* a \div 2^n.
ShiftRight(a, n) ==
    IF n \div LimbBits >= Len(a) THEN <<>>
    ELSE Trim(DivRem(SubSeq(a, n \div LimbBits + 1, Len(a)),
                     Pow(2, n % LimbBits)).q)

\* a % 2^n = 0.
LowBitsZero(a, n) ==
    /\ \A i \in 1..(n \div LimbBits) : LimbAt(a, i) = 0
    /\ LimbAt(a, n \div LimbBits + 1) % Pow(2, n % LimbBits) = 0

\* The bit of a that counts 2^n.
BitAt(a, n) ==
    (LimbAt(a, n \div LimbBits + 1) \div Pow(2, n % LimbBits)) % 2

\* The number of bits of a: the n with 2^(n-1) <= a < 2^n, 0 for a = 0.
BitLen(a) ==
    IF a = <<>> THEN 0
    ELSE LimbBits * (Len(a) - 1) + Width(a[Len(a)], 2)

\* The powers of ten are taken four places at a time: 10^4 < 2^15.
PlacesOf(n) == IF n >= 4 THEN 4 ELSE n

\* a * 10^n.
RECURSIVE TimesPow10(_, _)
TimesPow10(a, n) ==
    IF n = 0 \/ a = <<>> THEN a
    ELSE TimesPow10(MulSmall(a, Pow(10, PlacesOf(n)), 0), n - PlacesOf(n))

\* a \div 10^n, and whether the division leaves a remainder (`rest` says
\* that an earlier one did): [q, rest].
RECURSIVE DivPow10(_, _, _)
\* part is DivRem(a, 10^PlacesOf(n)).
DivPow10On(part, n, rest) ==
    DivPow10(Trim(part.q), n - PlacesOf(n), rest \/ part.r # 0)

DivPow10(a, n, rest) ==
    IF n = 0 \/ a = <<>> THEN [q |-> a, rest |-> rest]
    ELSE DivPow10On(DivRem(a, Pow(10, PlacesOf(n))), n, rest)

\* The number the digits ds write in base 10 or 16, on from acc.
RECURSIVE NatOfNumeral(_, _, _)
NatOfNumeral(acc, ds, base) ==
    IF ds = <<>> THEN acc
    ELSE NatOfNumeral(MulSmall(acc, base, HexVal(Head(ds))), Tail(ds), base)

\* The whole number nearest to (a + f) / 2^n, for an n >= 1 and a part f
\* with 0 <= f < 1, of which `rest` says that it is not 0; of two that are
\* equally near, the even one.  q is a \div 2^n.
NearestEven(a, rest, n, q) ==
    IF /\ BitAt(a, n - 1) = 1
       /\ rest \/ ~LowBitsZero(a, n - 1) \/ LimbAt(q, 1) % 2 = 1
    THEN AddCarry(q, <<>>, 1)
    ELSE q

(***************************************************************************)
(* The int of the program.  The builds of the model are the 64-bit ones,   *)
(* where an int has 64 bits and arithmetic wraps around.  An int is kept   *)
(* as the natural number below 2^64 that is congruent to it modulo 2^64:   *)
(* 12 as <<12>>, -1 as 2^64 - 1.                                           *)
(***************************************************************************)
\* a modulo 2^64 (2^64 = 16 * 2^60).
Wrap64(a) ==
    IF Len(a) < 5 THEN a ELSE Trim(SubSeq(a, 1, 4) \o <<a[5] % 16>>)

\* -a, for a < 2^64: 2^64 - 1 - a, and 1.
Neg64(a) ==
    Wrap64(AddCarry(Trim(<<Limb - 1 - LimbAt(a, 1), Limb - 1 - LimbAt(a, 2),
                           Limb - 1 - LimbAt(a, 3), Limb - 1 - LimbAt(a, 4),
                           15 - LimbAt(a, 5)>>),
                    <<>>, 1))

\* The int of the number n, for an n of at most nine digits.
Int64(n) == IF n >= 0 THEN NatOf(n) ELSE Neg64(NatOf(0 - n))

\* math.MaxInt64, 2^63 - 1, and math.MinInt64, -2^63.
MaxInt64 == <<Limb - 1, Limb - 1, Limb - 1, Limb - 1, 7>>

MinInt64 == <<0, 0, 0, 0, 8>>

\* a + b, wrapping around.
Add64(a, b) == Wrap64(AddCarry(a, b, 0))

\* a%2 != 0.
Odd64(a) == LimbAt(a, 1) % 2 = 1

\* a >= n, for an n with 0 <= n < 2^15: a is not negative (below 2^63 as
\* a natural number) and has more than one digit or a lowest one of n or
\* more.
GE64(a, n) == LimbAt(a, 5) < 8 /\ (Len(a) > 1 \/ LimbAt(a, 1) >= n)

(***************************************************************************)
(* strconv.Atoi.                                                           *)
(***************************************************************************)
\* The digits at the head of s.
RECURSIVE LeadingDigits(_)
LeadingDigits(s) ==
    IF s # <<>> /\ IsDigit(Head(s))
    THEN <<Head(s)>> \o LeadingDigits(Tail(s))
    ELSE <<>>

\* The digits without their leading zeros.
RECURSIVE StripZeros(_)
StripZeros(ds) ==
    IF ds # <<>> /\ Head(ds) = "0" THEN StripZeros(Tail(ds)) ELSE ds

\* a < b for two numerals without leading zeros: the shorter is the smaller,
\* and of two of one length the one with the smaller first differing digit.
RECURSIVE NumeralLess(_, _)
NumeralLess(a, b) ==
    IF Len(a) # Len(b) THEN Len(a) < Len(b)
    ELSE IF a = <<>> THEN FALSE
    ELSE IF Head(a) # Head(b) THEN DigitVal(Head(a)) < DigitVal(Head(b))
    ELSE NumeralLess(Tail(a), Tail(b))

\* 2^63 - 1, 2^63 and 2^64 - 1 in decimal.
MaxInt64Numeral ==
    <<"9", "2", "2", "3", "3", "7", "2", "0", "3", "6",
      "8", "5", "4", "7", "7", "5", "8", "0", "7">>

MinInt64Numeral ==
    <<"9", "2", "2", "3", "3", "7", "2", "0", "3", "6",
      "8", "5", "4", "7", "7", "5", "8", "0", "8">>

MaxUint64Numeral ==
    <<"1", "8", "4", "4", "6", "7", "4", "4", "0", "7",
      "3", "7", "0", "9", "5", "5", "1", "6", "1", "5">>

\* The text without its sign, and whether the sign is a minus.
Unsigned(s) == IF s # <<>> /\ Head(s) \in {"+", "-"} THEN Tail(s) ELSE s

Minus(s) == s # <<>> /\ Head(s) = "-"

\* The int of the text of sign neg and body `body`, whose leading digits
\* write `numeral`.  The characters are read from the left: the digits that
\* pass 2^64 - 1 end the reading with a range error before a later
\* character that is no digit is seen; such a character, or no character at
\* all, is a syntax error; digits that fit 64 bits but no int are a range
\* error.
AtoiOf(neg, body, digits, numeral) ==
    IF NumeralLess(MaxUint64Numeral, numeral)
    THEN [val |-> IF neg THEN MinInt64 ELSE MaxInt64, ok |-> FALSE]
    ELSE IF body = <<>> \/ digits # body
    THEN [val |-> Int64(0), ok |-> FALSE]
    ELSE IF ~neg /\ NumeralLess(MaxInt64Numeral, numeral)
    THEN [val |-> MaxInt64, ok |-> FALSE]
    ELSE IF neg /\ NumeralLess(MinInt64Numeral, numeral)
    THEN [val |-> MinInt64, ok |-> FALSE]
    ELSE [val |-> IF neg THEN Neg64(NatOfNumeral(<<>>, numeral, 10))
                  ELSE NatOfNumeral(<<>>, numeral, 10),
          ok  |-> TRUE]

\* strconv.Atoi(s): an optional sign and then one or more decimal digits.
\* On a syntax error the value is 0; on a range error (the number does not
\* fit an int) it is the nearest int, math.MaxInt64 or math.MinInt64.
Atoi(s) ==
    AtoiOf(Minus(s), Unsigned(s), LeadingDigits(Unsigned(s)),
           StripZeros(LeadingDigits(Unsigned(s))))

(***************************************************************************)
(* float64.  A value is NaN, an infinity, or the finite number             *)
(* (-1)^neg * mant * 2^exp with a natural number mant of at most 53 bits   *)
(* (2^53 itself included) and an exp of at least -1074.                    *)
(***************************************************************************)
NaN == [class |-> "nan", neg |-> FALSE, mant |-> <<>>, exp |-> 0]

Inf(neg) == [class |-> "inf", neg |-> neg, mant |-> <<>>, exp |-> 0]

Finite(neg, mant, exp) ==
    [class |-> "finite", neg |-> neg, mant |-> mant, exp |-> exp]

\* The float64 of a rounded fraction: an infinity from 2^1024 on.
Rounded(neg, mant, exp) ==
    IF mant = <<>> THEN Finite(neg, <<>>, 0)
    ELSE IF BitLen(mant) + exp > 1024 THEN Inf(neg)
    ELSE Finite(neg, mant, exp)

\* q is the exponent of the last place.  With q <= -s nothing is cut off
\* (and f is 0).
RoundTo(neg, a, rest, s, q) ==
    IF q + s <= 0 THEN Rounded(neg, a, 0 - s)
    ELSE Rounded(neg, NearestEven(a, rest, q + s, ShiftRight(a, q + s)), q)

\* The float64 nearest to (-1)^neg * (a + f) * 2^(-s), of two that are
\* equally near the one with the even fraction (IEEE 754, round to nearest
\* even), where 0 <= f < 1 and `rest` says that f is not 0.  The last
\* place is that of a fraction of 53 bits, and 2^-1074 where that would be
\* below it (the subnormal numbers).
Round(neg, a, rest, s) ==
    RoundTo(neg, a, rest, s,
            IF BitLen(a) - 53 - s >= 0 - 1074 THEN BitLen(a) - 53 - s
            ELSE 0 - 1074)

(***************************************************************************)
(* strconv.ParseFloat(s, 64).                                              *)
(***************************************************************************)
\* A word matched without regard to case: one set of runes per position.
InfWord == <<{"i", "I"}, {"n", "N"}, {"f", "F"}>>

InfinityWord ==
    InfWord \o <<{"i", "I"}, {"n", "N"}, {"i", "I"}, {"t", "T"}, {"y", "Y"}>>

NaNWord == <<{"n", "N"}, {"a", "A"}, {"n", "N"}>>

MatchesWord(s, word) ==
    /\ Len(s) = Len(word)
    /\ \A i \in 1..Len(s) : s[i] \in word[i]

\* special: "inf" or "infinity" with an optional sign, or "nan" without
\* one, in any case of letters.
special(s) ==
    IF \/ MatchesWord(Unsigned(s), InfWord)
       \/ MatchesWord(Unsigned(s), InfinityWord)
    THEN [ok |-> TRUE, val |-> Inf(Minus(s))]
    ELSE IF MatchesWord(s, NaNWord)
    THEN [ok |-> TRUE, val |-> NaN]
    ELSE [ok |-> FALSE, val |-> NaN]

\* underscoreOK, from position i on with `saw` the kind of the rune before:
\* "0" a digit or the base prefix, "_" an underscore, "!" anything else.  An
\* underscore is allowed only between two digits.
RECURSIVE UnderscoreScan(_, _, _, _)
UnderscoreScan(s, i, saw, hex) ==
    IF i > Len(s) THEN saw # "_"
    ELSE IF IsDigit(s[i]) \/ (hex /\ IsHexLetter(s[i]))
    THEN UnderscoreScan(s, i + 1, "0", hex)
    ELSE IF s[i] = "_"
    THEN saw = "0" /\ UnderscoreScan(s, i + 1, "_", hex)
    ELSE saw # "_" /\ UnderscoreScan(s, i + 1, "!", hex)

underscoreOK(s) ==
    IF /\ Len(Unsigned(s)) >= 2
       /\ Unsigned(s)[1] = "0"
       /\ Unsigned(s)[2] \in {"b", "B", "o", "O", "x", "X"}
    THEN UnderscoreScan(Unsigned(s), 3, "0", Unsigned(s)[2] \in {"x", "X"})
    ELSE UnderscoreScan(Unsigned(s), 1, "^", FALSE)

\* The text without its underscores.
RECURSIVE WithoutUnderscores(_)
WithoutUnderscores(s) ==
    IF s = <<>> THEN <<>>
    ELSE IF Head(s) = "_" THEN WithoutUnderscores(Tail(s))
    ELSE <<Head(s)>> \o WithoutUnderscores(Tail(s))

\* The exponent the digits ds write, read from the left on from e: readFloat
\* stops adding digits once the exponent has reached 10000.
RECURSIVE ExponentValue(_, _)
ExponentValue(ds, e) ==
    IF ds = <<>> THEN e
    ELSE ExponentValue(Tail(ds),
                       IF e < 10000 THEN 10 * e + DigitVal(Head(ds)) ELSE e)

\* The first place of s that holds one of chars, Len(s) + 1 if none does.
FirstOf(s, chars) ==
    LET at == {i \in 1..Len(s) : s[i] \in chars}
    IN  IF at = {} THEN Len(s) + 1
        ELSE CHOOSE i \in at : \A j \in at : i <= j

\* readFloat on the whole of s: an optional sign, an optional "0x", digits
\* with at most one point and with underscores among them, and an exponent
\* ("e" for decimal digits, "p", which is required, for hexadecimal ones)
\* with an optional sign and decimal digits.  ok says that all of s is such
\* a number; the number is mant * 16^0 * 2^exp for hexadecimal digits and
\* mant * 10^exp for decimal ones, and width is the number of digits of
\* mant without its leading zeros.  It is read in stages, each handing what
\* it has cut out to the next.
HasHexPrefix(body) ==
    Len(body) > 2 /\ body[1] = "0" /\ body[2] \in {"x", "X"}

\* The digits: at most one point, digits of the base and underscores only,
\* and a digit before or after the point.
mantissaOK(hex, mantText, int, frac) ==
    /\ Cardinality({i \in 1..Len(mantText) : mantText[i] = "."}) <= 1
    /\ \A i \in 1..Len(mantText) :
          \/ mantText[i] \in {"_", "."}
          \/ IsDigit(mantText[i])
          \/ hex /\ IsHexLetter(mantText[i])
    /\ Len(int) + Len(frac) >= 1

\* The exponent: none (decimal digits only), or digits and underscores that
\* begin with a digit.
exponentOK(hex, hasExp, ebody) ==
    IF ~hasExp THEN ~hex
    ELSE /\ ebody # <<>>
         /\ IsDigit(Head(ebody))
         /\ \A i \in 1..Len(ebody) : ebody[i] = "_" \/ IsDigit(ebody[i])

\* The exponent the text after the exponent mark writes.
WrittenExponent(expText) ==
    IF Minus(expText)
    THEN 0 - ExponentValue(WithoutUnderscores(Unsigned(expText)), 0)
    ELSE ExponentValue(WithoutUnderscores(Unsigned(expText)), 0)

\* int and frac are the digits before and after the point.
readNumber(s, hex, mantText, int, frac, hasExp, expText) ==
    IF ~(/\ mantissaOK(hex, mantText, int, frac)
         /\ exponentOK(hex, hasExp, Unsigned(expText))
         /\ underscoreOK(s))
    THEN [ok |-> FALSE, neg |-> FALSE, hex |-> FALSE, mant |-> <<>>,
          width |-> 0, exp |-> 0]
    ELSE [ok    |-> TRUE,
          neg   |-> Minus(s),
          hex   |-> hex,
          mant  |-> NatOfNumeral(<<>>, int \o frac, IF hex THEN 16 ELSE 10),
          width |-> Len(StripZeros(int \o frac)),
          exp   |-> IF hex THEN WrittenExponent(expText) - 4 * Len(frac)
                    ELSE WrittenExponent(expText) - Len(frac)]

\* point is the place of the first point of mantText.
readMantissa(s, hex, mantText, point, hasExp, expText) ==
    readNumber(s, hex, mantText,
               WithoutUnderscores(SubSeq(mantText, 1, point - 1)),
               WithoutUnderscores(SubSeq(mantText, point + 1, Len(mantText))),
               hasExp, expText)

\* mark is the place of the first exponent mark of rest.
readDigits(s, hex, rest, mark) ==
    readMantissa(s, hex,
                 SubSeq(rest, 1, mark - 1),
                 FirstOf(SubSeq(rest, 1, mark - 1), {"."}),
                 mark <= Len(rest),
                 SubSeq(rest, mark + 1, Len(rest)))

\* rest is the text after the sign and the "0x".
readPrefixed(s, hex, rest) ==
    readDigits(s, hex, rest,
               FirstOf(rest, IF hex THEN {"p", "P"} ELSE {"e", "E"}))

readFloat(s) ==
    readPrefixed(s,
                 HasHexPrefix(Unsigned(s)),
                 IF HasHexPrefix(Unsigned(s))
                 THEN SubSeq(Unsigned(s), 3, Len(Unsigned(s)))
                 ELSE Unsigned(s))

\* The float64 nearest to (-1)^neg * x * 2^(-s), where x is the quotient
\* of a division by a power of ten: [q, rest].
QuotientFloat(neg, x, s) == Round(neg, x.q, x.rest, s)

\* The float64 nearest to (-1)^neg * mant * 10^exp, for a mant # 0 of
\* `width` decimal digits.  A number of 10^309 or more is beyond every
\* float64 and one below 10^-324 is nearer to zero than to any other.  With
\* exp < 0 the number is mant * 2^n / 10^-exp / 2^n, for an n that leaves
\* the quotient 64 bits or more.
DecimalFloat(neg, mant, width, exp) ==
    IF width + exp > 309 THEN Inf(neg)
    ELSE IF width + exp < 0 - 323 THEN Finite(neg, <<>>, 0)
    ELSE IF exp >= 0 THEN Round(neg, TimesPow10(mant, exp), FALSE, 0)
    ELSE QuotientFloat(neg,
                       DivPow10(ShiftLeft(mant, 64 - 4 * exp), 0 - exp, FALSE),
                       64 - 4 * exp)

\* The float64 nearest to the number r: the rounding of strconv is exact
\* (to the nearest float64, to the even one of two).
NearestFloat(r) ==
    IF r.mant = <<>> THEN Finite(r.neg, <<>>, 0)
    ELSE IF r.hex THEN Round(r.neg, r.mant, FALSE, 0 - r.exp)
    ELSE DecimalFloat(r.neg, r.mant, r.width, r.exp)

\* A number that rounds to an infinity is a range error.
RangeChecked(f) == [val |-> f, ok |-> f.class # "inf"]

\* The float64 of the number r that readFloat has read.  On a syntax error
\* the value is 0; on a range error it is the infinity.  A number that
\* rounds to zero is zero, without an error.
FloatOf(r) ==
    IF ~r.ok THEN [val |-> Finite(FALSE, <<>>, 0), ok |-> FALSE]
    ELSE RangeChecked(NearestFloat(r))

\* strconv.ParseFloat(s, 64): a special word, or a number.
ParseFloat(s) ==
    IF special(s).ok
    THEN [val |-> special(s).val, ok |-> TRUE]
    ELSE FloatOf(readFloat(s))

(***************************************************************************)
(* The float64 arithmetic of computePoints.                                *)
(***************************************************************************)
\* The float64 0.2: 0x1999999999999A * 2^-55, the float64 nearest to 1/5.
FifthMant == <<6554, 13107, 26214, 204>>

\* v * 0.2: the product of NaN is NaN, that of an infinity is the infinity,
\* and that of a finite v is the float64 nearest to the exact product.
TimesFifth(v) ==
    IF v.class # "finite" THEN v
    ELSE Round(v.neg, Mul(v.mant, FifthMant), FALSE, 55 - v.exp)

\* math.Ceil(v): the least whole number at or above v, and v itself if it
\* is NaN or an infinity.  A float64 with an exp of 0 or more is whole.
Ceil(v) ==
    IF v.class # "finite" \/ v.exp >= 0 THEN v
    ELSE IF v.neg \/ LowBitsZero(v.mant, 0 - v.exp)
    THEN Rounded(v.neg, ShiftRight(v.mant, 0 - v.exp), 0)
    ELSE Rounded(FALSE, AddCarry(ShiftRight(v.mant, 0 - v.exp), <<>>, 1), 0)

\* math.Mod(v, 0.25) == 0.  Mod of NaN or of an infinity is NaN, which
\* equals nothing.  The Mod of a finite v is exact: it is 0 when v is a
\* whole multiple of 2^-2.
ModQuarterIsZero(v) ==
    /\ v.class = "finite"
    /\ \/ v.mant = <<>>
       \/ v.exp >= 0 - 2
       \/ LowBitsZero(v.mant, 0 - 2 - v.exp)

\* The build of the program.  What a conversion of a float64 that no int
\* holds yields is left to the implementation: the amd64 instruction gives
\* math.MinInt64 for every such value; the arm64 one gives 0 for NaN and
\* the nearest int, math.MaxInt64 or math.MinInt64, for the others.
VARIABLE build

Builds == {"amd64", "arm64"}

\* int(f) for f = NaN.
IntOfNaN == IF build = "amd64" THEN MinInt64 ELSE Int64(0)

\* int(f) for f an infinity, or finite and outside -2^63 .. 2^63 - 1.
IntOutOfRange(neg) ==
    IF build = "amd64" \/ neg THEN MinInt64 ELSE MaxInt64

\* The int of sign neg and size a, for an a below 2^63.
SignedInt(neg, a) == IF neg THEN Neg64(a) ELSE a

\* int(v): v without its fraction.  A finite v of size 2^63 or more is
\* outside the ints, but for -2^63, which is math.MinInt64: the int that a
\* negative v outside the ints yields on both builds.
IntOf(v) ==
    IF v.class = "nan" THEN IntOfNaN
    ELSE IF v.class = "inf" THEN IntOutOfRange(v.neg)
    ELSE IF BitLen(v.mant) + v.exp > 63 THEN IntOutOfRange(v.neg)
    ELSE IF v.exp >= 0 THEN SignedInt(v.neg, ShiftLeft(v.mant, v.exp))
    ELSE SignedInt(v.neg, ShiftRight(v.mant, 0 - v.exp))

\* Line 125: int(math.Ceil(price * 0.2))
CeilFifth(v) == IntOf(Ceil(TimesFifth(v)))

(***************************************************************************)
(* The data model (lines 16-39).  A field the JSON body leaves out decodes *)
(* to the empty text, a missing item list to the empty sequence.           *)
(***************************************************************************)
\* type Item struct
Item(description, price) == [Description |-> description, Price |-> price]

\* type Receipt struct
Receipt(retailer, date, time, total, items) ==
    [StoreName      |-> retailer,
     DateOfPurchase |-> date,
     TimeOfPurchase |-> time,
     TotalAmount    |-> total,
     PurchasedItems |-> items]

\* The zero value of Receipt: what a failed decode leaves in `receipt` and
\* what a map read of a missing key returns.
ZeroReceipt == Receipt(<<>>, <<>>, <<>>, <<>>, <<>>)

(***************************************************************************)
(* computePoints (lines 102-142), rule by rule.                            *)
(***************************************************************************)
\* Lines 105-109: one point for every alphanumeric character of the retailer.
retailerPoints(receipt) ==
    Cardinality({i \in 1..Len(receipt.StoreName) :
                    isAlphanumeric(receipt.StoreName[i])})

\* Lines 111-113: 50 points if the total's text ends with ".00".
roundDollarPoints(receipt) ==
    IF HasSuffix(receipt.TotalAmount, <<".", "0", "0">>) THEN 50 ELSE 0

\* Line 115: totalValue, _ := strconv.ParseFloat(receipt.TotalAmount, 64)
totalValue(receipt) == ParseFloat(receipt.TotalAmount).val

\* Lines 116-118: 25 points if math.Mod(totalValue, 0.25) == 0.
quarterPoints(receipt) ==
    IF ModQuarterIsZero(totalValue(receipt)) THEN 25 ELSE 0

\* Line 120: 5 points for every two items.
pairPoints(receipt) == (Len(receipt.PurchasedItems) \div 2) * 5

\* The test of line 123 dropped: every item earns its price points.
itemPointsAnyLength(item) == CeilFifth(ParseFloat(item.Price).val)

\* Lines 123-126, one item: if the trimmed description's length in bytes is
\* a multiple of 3, int(math.Ceil(price * 0.2)) points.
itemPoints(item) ==
    IF ByteLen(TrimSpace(item.Description)) % 3 = 0
    THEN CeilFifth(ParseFloat(item.Price).val)
    ELSE Int64(0)

\* Lines 122-127: the loop over the items.
RECURSIVE descriptionPoints(_)
descriptionPoints(items) ==
    IF items = <<>> THEN Int64(0)
    ELSE Add64(itemPoints(Head(items)), descriptionPoints(Tail(items)))

\* Line 129: dateParts := strings.Split(receipt.DateOfPurchase, "-")
dateParts(receipt) == Split(receipt.DateOfPurchase, "-")

\* Line 130 reads dateParts[2]: with fewer than three parts the index is out
\* of range and the goroutine panics.
dayIndexPanics(receipt) == Len(dateParts(receipt)) < 3

\* Line 130: day, _ := strconv.Atoi(dateParts[2])
day(receipt) == Atoi(dateParts(receipt)[3]).val

\* Lines 131-133: 6 points if day%2 != 0.
dayPoints(receipt) == IF Odd64(day(receipt)) THEN 6 ELSE 0

\* Line 135: timeParts := strings.Split(receipt.TimeOfPurchase, ":")
timeParts(receipt) == Split(receipt.TimeOfPurchase, ":")

\* Line 136: hour, _ := strconv.Atoi(timeParts[0])
hour(receipt) == Atoi(timeParts(receipt)[1]).val

\* The afternoon test with its upper end included.
hourPointsInclusive(receipt) ==
    IF GE64(hour(receipt), 14) /\ ~GE64(hour(receipt), 17) THEN 10 ELSE 0

\* Lines 137-139: 10 points if hour >= 14 && hour < 16.
hourPoints(receipt) ==
    IF GE64(hour(receipt), 14) /\ ~GE64(hour(receipt), 16) THEN 10 ELSE 0

\* func computePoints(receipt Receipt) int: the points, or a panic (an index
\* out of range at line 130) that unwinds the calling goroutine.
computePoints(receipt) ==
    IF dayIndexPanics(receipt)
    THEN [panicked |-> TRUE, points |-> Int64(0)]
    ELSE [panicked |-> FALSE,
          points   |->
              Add64(Int64(retailerPoints(receipt)
                              + roundDollarPoints(receipt)
                              + quarterPoints(receipt)
                              + pairPoints(receipt)
                              + dayPoints(receipt)
                              + hourPoints(receipt)),
                    descriptionPoints(receipt.PurchasedItems))]

(***************************************************************************)
(* The texts the model feeds the program.                                  *)
(***************************************************************************)
\* "Mountain Dew 12PK" and "6.49": the item of the README's request.
MountainDew == Item(<<"M", "o", "u", "n", "t", "a", "i", "n", " ", "D", "e",
    "w", " ", "1", "2", "P", "K">>, <<"6", ".", "4", "9">>)

\* The README's example request (lines 202-210).
ExampleReceipt ==
    Receipt(<<"T", "a", "r", "g", "e", "t">>, <<"2", "0", "2", "2", "-", "0",
        "1", "-", "0", "1">>, <<"1", "3", ":", "0", "1">>, <<"3", "5", ".",
        "3", "5">>, <<MountainDew>>)

\* A receipt with every required field, whose date has a single "-".
ShortDateReceipt ==
    Receipt(<<"T", "a", "r", "g", "e", "t">>, <<"2", "0", "2", "2", "-", "0",
        "1">>, <<"1", "4", "3", "3">>, <<"1", "0", ".", "0", "0">>,
        <<MountainDew>>)

\* The example request without its total, and without its items.
NoTotalReceipt ==
    Receipt(<<"T", "a", "r", "g", "e", "t">>, <<"2", "0", "2", "2", "-", "0",
        "1", "-", "0", "1">>, <<"1", "3", ":", "0", "1">>, <<>>,
        <<MountainDew>>)

NoItemsReceipt ==
    Receipt(<<"T", "a", "r", "g", "e", "t">>, <<"2", "0", "2", "2", "-", "0",
        "1", "-", "0", "1">>, <<"1", "3", ":", "0", "1">>, <<"3", "5", ".",
        "3", "5">>, <<>>)

\* Retailers: "Target", "M&M 24".
ScoreRetailers == {<<"T", "a", "r", "g", "e", "t">>, <<"M", "&", "M", " ",
    "2", "4">>}

\* "99999999999999999999": twenty digits, more than an int holds.
TwentyNines ==
    <<"9", "9", "9", "9", "9", "9", "9", "9", "9", "9",
      "9", "9", "9", "9", "9", "9", "9", "9", "9", "9">>

\* Dates: well-formed ones, then "2022-01" and "2022" (too few parts),
\* "2022-01-" and "2022-01-0x" (the day is no number), "2022-01-7-3",
\* "2022-01-99999999999999999999" (the day is out of range) and
\* "2022-01-99999999999999999999x" (out of range before the "x" is read).
WellFormedDates == {<<"2", "0", "2", "2", "-", "0", "1", "-", "0", "1">>,
    <<"2", "0", "2", "2", "-", "0", "3", "-", "2", "0">>, <<"2", "0", "2",
    "2", "-", "1", "2", "-", "3", "1">>}

ScoreDates ==
    WellFormedDates
        \cup {<<"2", "0", "2", "2", "-", "0", "1">>, <<"2", "0", "2", "2">>,
            <<"2", "0", "2", "2", "-", "0", "1", "-">>, <<"2", "0", "2", "2",
            "-", "0", "1", "-", "0", "x">>, <<"2", "0", "2", "2", "-", "0",
            "1", "-", "7", "-", "3">>,
            <<"2", "0", "2", "2", "-", "0", "1", "-">> \o TwentyNines,
            <<"2", "0", "2", "2", "-", "0", "1", "-">> \o TwentyNines
                \o <<"x">>}

\* Times: well-formed ones, then "1433" and "14" (no ":"), "ab:00", ":30"
\* and "99999999999999999999:00" (the hour is out of range).
WellFormedTimes == {<<"1", "3", ":", "0", "1">>, <<"1", "4", ":", "0", "0">>,
    <<"1", "5", ":", "5", "9">>, <<"1", "6", ":", "0", "0">>}

ScoreTimes == WellFormedTimes \cup {<<"1", "4", "3", "3">>, <<"1", "4">>,
    <<"a", "b", ":", "0", "0">>, <<":", "3", "0">>,
    TwentyNines \o <<":", "0", "0">>}

\* Totals: well-formed ones; "abc", "1.2.3" and ".00" (no numbers); "inf"
\* and "NaN"; "1e2", "1_0" and "0x1p-2" (100, 10 and 0.25); "1e400" (out of
\* range) and "1e-400" (rounds to zero); "4503599627370496.1" (2^52 and a
\* tenth, which rounds to 2^52).
WellFormedTotals == {<<"3", "5", ".", "3", "5">>, <<"1", "0", ".", "0",
    "0">>, <<"9", ".", "2", "5">>, <<"0", ".", "5", "0">>}

ScoreTotals ==
    WellFormedTotals
        \cup {<<"a", "b", "c">>, <<"1", ".", "2", ".", "3">>,
            <<".", "0", "0">>, <<"i", "n", "f">>, <<"N", "a", "N">>,
            <<"1", "e", "2">>, <<"1", "_", "0">>,
            <<"0", "x", "1", "p", "-", "2">>, <<"1", "e", "4", "0", "0">>,
            <<"1", "e", "-", "4", "0", "0">>,
            <<"4", "5", "0", "3", "5", "9", "9", "6", "2", "7", "3", "7", "0",
              "4", "9", "6", ".", "1">>}

\* Items: the README's; "Emils Cheese Pizza" (18 bytes) at "12.25";
\* "  Gatorade  " (8 bytes once trimmed) at "2.25"; "   " (empty once
\* trimmed) at "5.00".
EmilsCheesePizza ==
    Item(<<"E", "m", "i", "l", "s", " ", "C", "h", "e", "e", "s", "e", " ",
        "P", "i", "z", "z", "a">>, <<"1", "2", ".", "2", "5">>)

WellFormedItems ==
    {MountainDew,
     EmilsCheesePizza,
     Item(<<" ", " ", "G", "a", "t", "o", "r", "a", "d", "e", " ", " ">>,
         <<"2", ".", "2", "5">>),
     Item(<<" ", " ", " ">>, <<"5", ".", "0", "0">>)}

\* "Knorr Dip" (9 bytes) at a price.
KnorrDip(price) ==
    Item(<<"K", "n", "o", "r", "r", " ", "D", "i", "p">>, price)

\* "Knorr Dip" at "1e400": the price is out of range.
OverpricedItem == KnorrDip(<<"1", "e", "4", "0", "0">>)

\* "Knorr Dip" at "5.0000000000000001", which rounds to 5, and at
\* "46116860184273879039", which rounds to 5 * 2^63 - 4096, the float64
\* next below 5 * 2^63: a fifth of it rounds to 2^63.
RoundedItems ==
    {KnorrDip(<<"5", ".", "0", "0", "0", "0", "0", "0", "0", "0", "0", "0",
         "0", "0", "0", "0", "0", "0", "1">>),
     KnorrDip(<<"4", "6", "1", "1", "6", "8", "6", "0", "1", "8", "4", "2",
         "7", "3", "8", "7", "9", "0", "3", "9">>)}

\* More items: "Knorr Dip" at "abc" (no number), at "1e1", at "-6.49", at
\* "NaN" and at "1e400"; a vertical tab and "ab" (2 bytes once trimmed) at
\* "5.00"; a no-break space and "éa" (3 bytes once trimmed) at "5.00"; the
\* euro sign (3 bytes), the euro sign and "ab" (5 bytes), and the ogham
\* space mark and "abc" (3 bytes once trimmed) at "5.00"; the items of
\* rounded prices.
OtherItems ==
    {KnorrDip(<<"a", "b", "c">>),
     KnorrDip(<<"1", "e", "1">>),
     KnorrDip(<<"-", "6", ".", "4", "9">>),
     KnorrDip(<<"N", "a", "N">>),
     OverpricedItem,
     Item(<<VerticalTab, "a", "b">>, <<"5", ".", "0", "0">>),
     Item(<<NoBreakSpace, "é", "a">>, <<"5", ".", "0", "0">>),
     Item(<<"U+20AC">>, <<"5", ".", "0", "0">>),
     Item(<<"U+20AC", "a", "b">>, <<"5", ".", "0", "0">>),
     Item(<<"U+1680", "a", "b", "c">>, <<"5", ".", "0", "0">>)}
        \cup RoundedItems

\* The non-empty sequences of at most n elements of S.
SeqsUpTo(S, n) == UNION {[1..k -> S] : k \in 1..n}

\* The item lists of the scored receipts: up to MaxItems well-formed items;
\* each of the other items, alone and after a well-formed one; two items
\* with prices out of range.
ScoreItemLists ==
    SeqsUpTo(WellFormedItems, MaxItems)
        \cup {<<item>> : item \in OtherItems}
        \cup {<<EmilsCheesePizza, item>> : item \in OtherItems}
        \cup {<<OverpricedItem, OverpricedItem>>}

\* The receipts computePoints is run on: every one has the five required
\* fields, as every stored receipt has.
ScoreReceipts ==
    {Receipt(r, d, t, a, is) :
        r \in ScoreRetailers, d \in ScoreDates, t \in ScoreTimes,
        a \in ScoreTotals, is \in ScoreItemLists}

(***************************************************************************)
(* The server: goroutines, one per request in flight, running the handlers *)
(* processReceipt and getPoints over the shared map and its mutex.         *)
(***************************************************************************)
\* The number of requests the server handles at the same time.
NumProcs == 2

Procs == 1..NumProcs

VARIABLES
    receiptStorage,  \* line 42: the map from identifier to receipt
    hashWriting,     \* the Go runtime's flag of a map assignment under way
    fatal,           \* the runtime has stopped the process
    storageMutex,    \* line 43: 0 when unlocked, else the goroutine holding it
    minted,          \* how many identifiers uuid.New() has returned
    pc,              \* where each goroutine is in its handler
    request,         \* the request the handler has read from its client
    receipt,         \* the handler's local `receipt`
    receiptID,       \* the handler's local `receiptID`
    exists,          \* getPoints's local `exists`
    points,          \* getPoints's local `points`
    response,        \* what the handler has written to its client
    issued,          \* history: identifier -> receipt of every answered Submit
    scoreReceipt,    \* the receipt computePoints is applied to on its own
    scoreDone,       \* whether it has been applied
    scoreResult      \* what it returned

vars ==
    <<receiptStorage, hashWriting, fatal, storageMutex, minted, pc, request,
      receipt, receiptID, exists, points, response, issued,
      scoreReceipt, scoreDone, scoreResult, build>>

serverVars ==
    <<receiptStorage, hashWriting, fatal, storageMutex, minted, pc, request,
      receipt, receiptID, exists, points, response, issued>>

scoreVars == <<scoreReceipt, scoreDone, scoreResult>>

\* The int 0.
Zero64 == Int64(0)

\* The map with no entry.
EmptyStorage == [id \in {} |-> ZeroReceipt]

\* The n-th identifier uuid.New() returns: "u1", "u2", ...  An identifier
\* stands for a 36-character UUID; all that the handlers use of it is that
\* it holds no white space and differs from every other one.
IdText(n) == <<"u", Digits[n + 1]>>

\* uuid.New() returning an identifier it has returned before.
uuidNewRepeating(n) == IdText(1)

\* Line 65, uuid.New().String(): an identifier never returned before.
uuidNew(n) == IdText(n + 1)

PathPrefix == <<"/", "r", "e", "c", "e", "i", "p", "t", "s", "/">>

PathSuffix == <<"/", "p", "o", "i", "n", "t", "s">>

\* The paths asked for: /receipts/{id}/points for the identifiers uuid.New()
\* can return and for "u " (a space in it), and /receipts/ itself, which
\* leaves the empty identifier.
QueriedPaths ==
    {PathPrefix \o id \o PathSuffix :
        id \in {IdText(n) : n \in 1..MaxIds} \cup {<<"u", " ">>}}
    \cup {PathPrefix}

\* The requests routed to processReceipt: the method, whether the body is
\* JSON that decodes, and the Receipt it decodes to.
ProcessRequests ==
    {[kind |-> "process", method |-> "GET", decodes |-> TRUE,
      body |-> ExampleReceipt, path |-> <<>>],
     [kind |-> "process", method |-> "POST", decodes |-> FALSE,
      body |-> ZeroReceipt, path |-> <<>>]}
    \cup
    {[kind |-> "process", method |-> "POST", decodes |-> TRUE,
      body |-> r, path |-> <<>>] :
        r \in {ExampleReceipt, ShortDateReceipt,
               NoTotalReceipt, NoItemsReceipt}}

\* The requests routed to getPoints: the method and the path.
PointsRequests ==
    {[kind |-> "points", method |-> "POST", decodes |-> TRUE,
      body |-> ZeroReceipt, path |-> PathPrefix \o IdText(1) \o PathSuffix]}
    \cup
    {[kind |-> "points", method |-> "GET", decodes |-> TRUE,
      body |-> ZeroReceipt, path |-> path] :
        path \in QueriedPaths}

\* No request read yet.
NoRequest ==
    [kind |-> "none", method |-> "", decodes |-> TRUE,
     body |-> ZeroReceipt, path |-> <<>>]

\* What a handler has written: nothing yet, an error status, an identifier,
\* points, or nothing at all because the goroutine panicked and the server
\* closed the connection.
NoResponse == [status |-> 0, id |-> <<>>, points |-> Zero64]

ErrorResponse(code) == [status |-> code, id |-> <<>>, points |-> Zero64]

IdResponse(id) == [status |-> 200, id |-> id, points |-> Zero64]

PointsResponse(n) == [status |-> 200, id |-> <<>>, points |-> n]

\* The status the model gives a connection closed without a response.
Aborted == 0 - 1

AbortedResponse == [status |-> Aborted, id |-> <<>>, points |-> Zero64]

\* The test of line 60 without its TotalAmount disjunct.
InvalidReceiptNoTotalTest(r) ==
    \/ r.StoreName = <<>>
    \/ r.DateOfPurchase = <<>>
    \/ r.TimeOfPurchase = <<>>
    \/ Len(r.PurchasedItems) = 0

\* Line 60: the receipt lacks a required field.
InvalidReceipt(r) ==
    \/ r.StoreName = <<>>
    \/ r.DateOfPurchase = <<>>
    \/ r.TimeOfPurchase = <<>>
    \/ r.TotalAmount = <<>>
    \/ Len(r.PurchasedItems) = 0

\* Line 84: regexp `^\S+$` matches: the text is not empty and every rune
\* of it is outside \s.
ValidReceiptID(id) ==
    /\ Len(id) >= 1
    /\ \A i \in 1..Len(id) : id[i] \notin PerlSpace

\* A request processReceipt will accept: it passes lines 48-63.
Accepted(req) ==
    /\ req.kind = "process"
    /\ req.method = "POST"
    /\ req.decodes
    /\ ~InvalidReceipt(req.body)

\* The submissions in flight that have yet to draw their identifier.
AwaitingId == {p \in Procs : pc[p] = "p_uuid"}

ServerInit ==
    /\ receiptStorage = EmptyStorage
    /\ hashWriting = FALSE
    /\ fatal = FALSE
    /\ storageMutex = 0
    /\ minted = 0
    /\ pc = [p \in Procs |-> "idle"]
    /\ request = [p \in Procs |-> NoRequest]
    /\ receipt = [p \in Procs |-> ZeroReceipt]
    /\ receiptID = [p \in Procs |-> <<>>]
    /\ exists = [p \in Procs |-> FALSE]
    /\ points = [p \in Procs |-> Zero64]
    /\ response = [p \in Procs |-> NoResponse]
    /\ issued = EmptyStorage

(***************************************************************************)
(* The mutex and the map.                                                  *)
(***************************************************************************)
\* A Lock() that does not wait for the mutex to be free.
MutexFreeUnchecked == TRUE

\* storageMutex.Lock() (lines 66, 89) returns only once the mutex is free.
MutexFree == storageMutex = 0

\* An Unlock() that leaves the mutex with the goroutine.
AfterUnlockHeld(p) == p

\* storageMutex.Unlock() (lines 68, 91): the mutex is free again.
AfterUnlock(p) == 0

\* A handler that takes every identifier for a stored one.
NotFoundNever(found) == FALSE

\* Line 92: if !exists
NotFound(found) == ~found

\* The map m with id bound to r (the assignment of line 67, once complete).
MapAssign(m, id, r) ==
    [x \in DOMAIN m \cup {id} |-> IF x = id THEN r ELSE m[x]]

\* A request handler has returned, or no request has come yet.
Returned(p) == pc[p] \in {"idle", "done"}

(***************************************************************************)
(* Requests arrive.                                                        *)
(***************************************************************************)
\* The server starts goroutine p on a request for /receipts/process.
StartProcess(p) ==
    /\ ~fatal
    /\ Returned(p)
    /\ pc' = [pc EXCEPT ![p] = "p_entry"]
    /\ response' = [response EXCEPT ![p] = NoResponse]
    /\ request' = [request EXCEPT ![p] = NoRequest]
    /\ UNCHANGED <<receiptStorage, hashWriting, fatal, storageMutex, minted,
                   receipt, receiptID, exists, points, issued,
                   scoreVars, build>>

\* The server starts goroutine p on a request for /receipts/{id}/points.
StartPoints(p) ==
    /\ ~fatal
    /\ Returned(p)
    /\ pc' = [pc EXCEPT ![p] = "g_entry"]
    /\ response' = [response EXCEPT ![p] = NoResponse]
    /\ request' = [request EXCEPT ![p] = NoRequest]
    /\ UNCHANGED <<receiptStorage, hashWriting, fatal, storageMutex, minted,
                   receipt, receiptID, exists, points, issued,
                   scoreVars, build>>

(***************************************************************************)
(* processReceipt (lines 47-71).                                           *)
(***************************************************************************)
\* Lines 48-63: the method, the decoding of the body read from the client,
\* the required fields.  A request that will draw an identifier is read
\* only while one is left to draw.
ProcessValidate(p) ==
    /\ ~fatal
    /\ pc[p] = "p_entry"
    /\ \E req \in ProcessRequests :
         LET decoded == IF req.decodes THEN req.body ELSE ZeroReceipt
         IN  /\ Accepted(req) => minted + Cardinality(AwaitingId) < MaxIds
             /\ request' = [request EXCEPT ![p] = req]
             /\ IF req.method # "POST"
                THEN /\ response' = [response EXCEPT ![p] = ErrorResponse(405)]
                     /\ pc' = [pc EXCEPT ![p] = "done"]
                     /\ UNCHANGED receipt
                ELSE IF ~req.decodes \/ InvalidReceipt(decoded)
                THEN /\ response' = [response EXCEPT ![p] = ErrorResponse(400)]
                     /\ pc' = [pc EXCEPT ![p] = "done"]
                     /\ UNCHANGED receipt
                ELSE /\ receipt' = [receipt EXCEPT ![p] = decoded]
                     /\ pc' = [pc EXCEPT ![p] = "p_uuid"]
                     /\ UNCHANGED response
    /\ UNCHANGED <<receiptStorage, hashWriting, fatal, storageMutex, minted,
                   receiptID, exists, points, issued, scoreVars, build>>

\* Line 65: receiptID := uuid.New().String()
ProcessNewID(p) ==
    /\ ~fatal
    /\ pc[p] = "p_uuid"
    /\ minted < MaxIds
    /\ receiptID' = [receiptID EXCEPT ![p] = uuidNew(minted)]
    /\ minted' = minted + 1
    /\ pc' = [pc EXCEPT ![p] = "p_lock"]
    /\ UNCHANGED <<request, receiptStorage, hashWriting, fatal, storageMutex,
                   receipt, exists, points, response, issued,
                   scoreVars, build>>

\* Line 66: storageMutex.Lock()
ProcessLock(p) ==
    /\ ~fatal
    /\ pc[p] = "p_lock"
    /\ MutexFree
    /\ storageMutex' = p
    /\ pc' = [pc EXCEPT ![p] = "p_assign"]
    /\ UNCHANGED <<request, receiptStorage, hashWriting, fatal, minted,
                   receipt, receiptID, exists, points, response, issued,
                   scoreVars, build>>

\* Line 67, receiptStorage[receiptID] = receipt, as the runtime starts it:
\* a map assignment that finds another one under way stops the process
\* ("concurrent map writes"); otherwise it flags the map as being written.
ProcessAssignBegin(p) ==
    /\ ~fatal
    /\ pc[p] = "p_assign"
    /\ IF hashWriting
       THEN /\ fatal' = TRUE
            /\ UNCHANGED <<hashWriting, pc>>
       ELSE /\ hashWriting' = TRUE
            /\ pc' = [pc EXCEPT ![p] = "p_assigning"]
            /\ UNCHANGED fatal
    /\ UNCHANGED <<request, receiptStorage, storageMutex, minted, receipt,
                   receiptID, exists, points, response, issued,
                   scoreVars, build>>

\* Line 67 as the runtime ends it: the entry is in the map, the flag is off.
ProcessAssignEnd(p) ==
    /\ ~fatal
    /\ pc[p] = "p_assigning"
    /\ receiptStorage' = MapAssign(receiptStorage, receiptID[p], receipt[p])
    /\ hashWriting' = FALSE
    /\ pc' = [pc EXCEPT ![p] = "p_unlock"]
    /\ UNCHANGED <<request, fatal, storageMutex, minted, receipt, receiptID,
                   exists, points, response, issued, scoreVars, build>>

\* Line 68: storageMutex.Unlock()
ProcessUnlock(p) ==
    /\ ~fatal
    /\ pc[p] = "p_unlock"
    /\ storageMutex' = AfterUnlock(p)
    /\ pc' = [pc EXCEPT ![p] = "p_encode"]
    /\ UNCHANGED <<request, receiptStorage, hashWriting, fatal, minted,
                   receipt, receiptID, exists, points, response, issued,
                   scoreVars, build>>

\* Line 70: the identifier is written to the client, and the handler returns.
ProcessEncode(p) ==
    /\ ~fatal
    /\ pc[p] = "p_encode"
    /\ response' = [response EXCEPT ![p] = IdResponse(receiptID[p])]
    /\ issued' = MapAssign(issued, receiptID[p], receipt[p])
    /\ pc' = [pc EXCEPT ![p] = "done"]
    /\ receipt' = [receipt EXCEPT ![p] = ZeroReceipt]
    /\ receiptID' = [receiptID EXCEPT ![p] = <<>>]
    /\ request' = [request EXCEPT ![p] = NoRequest]
    /\ UNCHANGED <<receiptStorage, hashWriting, fatal, storageMutex, minted,
                   exists, points, scoreVars, build>>

(***************************************************************************)
(* getPoints (lines 74-99).                                                *)
(***************************************************************************)
\* Lines 75-87: the method, the identifier cut out of the path, its format.
PointsValidate(p) ==
    /\ ~fatal
    /\ pc[p] = "g_entry"
    /\ \E req \in PointsRequests :
         LET id == TrimSuffix(TrimPrefix(req.path, PathPrefix), PathSuffix)
         IN  /\ request' = [request EXCEPT ![p] = req]
             /\ IF req.method # "GET"
                THEN /\ response' = [response EXCEPT ![p] = ErrorResponse(405)]
                     /\ pc' = [pc EXCEPT ![p] = "done"]
                     /\ UNCHANGED receiptID
                ELSE IF ~ValidReceiptID(id)
                THEN /\ response' = [response EXCEPT ![p] = ErrorResponse(400)]
                     /\ pc' = [pc EXCEPT ![p] = "done"]
                     /\ UNCHANGED receiptID
                ELSE /\ receiptID' = [receiptID EXCEPT ![p] = id]
                     /\ pc' = [pc EXCEPT ![p] = "g_lock"]
                     /\ UNCHANGED response
    /\ UNCHANGED <<receiptStorage, hashWriting, fatal, storageMutex, minted,
                   receipt, exists, points, issued, scoreVars, build>>

\* Line 89: storageMutex.Lock()
PointsLock(p) ==
    /\ ~fatal
    /\ pc[p] = "g_lock"
    /\ MutexFree
    /\ storageMutex' = p
    /\ pc' = [pc EXCEPT ![p] = "g_read"]
    /\ UNCHANGED <<request, receiptStorage, hashWriting, fatal, minted,
                   receipt, receiptID, exists, points, response, issued,
                   scoreVars, build>>

\* Line 90: receipt, exists := receiptStorage[receiptID].  A map read that
\* finds an assignment under way stops the process ("concurrent map read
\* and map write"); a missing key reads as the zero Receipt.
PointsRead(p) ==
    /\ ~fatal
    /\ pc[p] = "g_read"
    /\ IF hashWriting
       THEN /\ fatal' = TRUE
            /\ UNCHANGED <<receipt, exists, pc>>
       ELSE /\ exists' = [exists EXCEPT
                            ![p] = receiptID[p] \in DOMAIN receiptStorage]
            /\ receipt' = [receipt EXCEPT
                            ![p] = IF receiptID[p] \in DOMAIN receiptStorage
                                   THEN receiptStorage[receiptID[p]]
                                   ELSE ZeroReceipt]
            /\ pc' = [pc EXCEPT ![p] = "g_unlock"]
            /\ UNCHANGED fatal
    /\ UNCHANGED <<request, receiptStorage, hashWriting, storageMutex, minted,
                   receiptID, points, response, issued, scoreVars, build>>

\* Line 91: storageMutex.Unlock()
PointsUnlock(p) ==
    /\ ~fatal
    /\ pc[p] = "g_unlock"
    /\ storageMutex' = AfterUnlock(p)
    /\ pc' = [pc EXCEPT ![p] = "g_compute"]
    /\ UNCHANGED <<request, receiptStorage, hashWriting, fatal, minted,
                   receipt, receiptID, exists, points, response, issued,
                   scoreVars, build>>

\* Lines 92-97: not found, or points := computePoints(receipt).  A panic in
\* computePoints unwinds the handler; net/http recovers it and closes the
\* connection, so the client gets no response.  The locals are dead from
\* here on and are reset.
PointsCompute(p) ==
    /\ ~fatal
    /\ pc[p] = "g_compute"
    /\ IF NotFound(exists[p])
       THEN /\ response' = [response EXCEPT ![p] = ErrorResponse(404)]
            /\ pc' = [pc EXCEPT ![p] = "done"]
            /\ UNCHANGED points
       ELSE IF computePoints(receipt[p]).panicked
       THEN /\ response' = [response EXCEPT ![p] = AbortedResponse]
            /\ pc' = [pc EXCEPT ![p] = "done"]
            /\ UNCHANGED points
       ELSE /\ points' = [points EXCEPT ![p] = computePoints(receipt[p]).points]
            /\ pc' = [pc EXCEPT ![p] = "g_encode"]
            /\ UNCHANGED response
    /\ receipt' = [receipt EXCEPT ![p] = ZeroReceipt]
    /\ receiptID' = [receiptID EXCEPT ![p] = <<>>]
    /\ exists' = [exists EXCEPT ![p] = FALSE]
    /\ request' = [request EXCEPT ![p] = NoRequest]
    /\ UNCHANGED <<receiptStorage, hashWriting, fatal, storageMutex, minted,
                   issued, scoreVars, build>>

\* Line 98: the points are written to the client, and the handler returns.
PointsEncode(p) ==
    /\ ~fatal
    /\ pc[p] = "g_encode"
    /\ response' = [response EXCEPT ![p] = PointsResponse(points[p])]
    /\ points' = [points EXCEPT ![p] = Zero64]
    /\ pc' = [pc EXCEPT ![p] = "done"]
    /\ UNCHANGED <<request, receiptStorage, hashWriting, fatal, storageMutex,
                   minted, receipt, receiptID, exists, issued,
                   scoreVars, build>>

(***************************************************************************)
(* The server as a whole.                                                  *)
(***************************************************************************)
\* A step of the handler goroutine p is running.
Handler(p) ==
    \/ ProcessValidate(p)
    \/ ProcessNewID(p)
    \/ ProcessLock(p)
    \/ ProcessAssignBegin(p)
    \/ ProcessAssignEnd(p)
    \/ ProcessUnlock(p)
    \/ ProcessEncode(p)
    \/ PointsValidate(p)
    \/ PointsLock(p)
    \/ PointsRead(p)
    \/ PointsUnlock(p)
    \/ PointsCompute(p)
    \/ PointsEncode(p)

Next ==
    \E p \in Procs :
        \/ StartProcess(p)
        \/ StartPoints(p)
        \/ ProcessValidate(p)
        \/ ProcessNewID(p)
        \/ ProcessLock(p)
        \/ ProcessAssignBegin(p)
        \/ ProcessAssignEnd(p)
        \/ ProcessUnlock(p)
        \/ ProcessEncode(p)
        \/ PointsValidate(p)
        \/ PointsLock(p)
        \/ PointsRead(p)
        \/ PointsUnlock(p)
        \/ PointsCompute(p)
        \/ PointsEncode(p)

Init ==
    /\ ServerInit
    /\ build \in Builds
    /\ scoreReceipt = ExampleReceipt
    /\ scoreDone = FALSE
    /\ scoreResult = [panicked |-> FALSE, points |-> Zero64]

\* The server under any scheduling of its goroutines.
Spec == Init /\ [][Next]_vars

\* The server when the Go scheduler lets every goroutine that can take a
\* step take one eventually.  The mutex is handed to a waiting goroutine
\* that keeps asking (sync.Mutex's starvation mode), hence strong fairness
\* for the two Lock() steps.
FairSpec ==
    /\ Spec
    /\ \A p \in Procs :
          /\ WF_vars(Handler(p))
          /\ SF_vars(ProcessLock(p))
          /\ SF_vars(PointsLock(p))

(***************************************************************************)
(* computePoints on its own: one receipt, scored once.                     *)
(***************************************************************************)
ScoreInit ==
    /\ ServerInit
    /\ build \in Builds
    /\ scoreReceipt \in ScoreReceipts
    /\ scoreDone = FALSE
    /\ scoreResult = [panicked |-> FALSE, points |-> Zero64]

Score ==
    /\ ~scoreDone
    /\ scoreResult' = computePoints(scoreReceipt)
    /\ scoreDone' = TRUE
    /\ UNCHANGED <<scoreReceipt, serverVars, build>>

SpecScore == ScoreInit /\ [][Score]_vars

(***************************************************************************)
(* Vocabulary of the properties, stated apart from the handlers' own       *)
(* tests.                                                                  *)
(***************************************************************************)
\* The Receipt invariant: all five fields are present.
HasFiveFields(r) ==
    /\ r.StoreName # <<>>
    /\ r.DateOfPurchase # <<>>
    /\ r.TimeOfPurchase # <<>>
    /\ r.TotalAmount # <<>>
    /\ r.PurchasedItems # <<>>

\* A submission the boundary has to refuse.
MustBeRefused(req) ==
    /\ req.kind = "process"
    /\ \/ req.method # "POST"
       \/ ~req.decodes
       \/ ~HasFiveFields(req.body)

\* The places of a handler where it holds storageMutex for a map access.
LockedPlaces == {"p_assign", "p_assigning", "p_unlock", "g_read", "g_unlock"}

\* The places where a handler touches the map.
MapAccessPlaces == {"p_assign", "p_assigning", "g_read"}

\* The places where a handler decodes or validates its input, generates an
\* identifier, waits for the mutex, computes points or encodes its response.
UnlockedPlaces ==
    {"p_entry", "p_uuid", "p_lock", "p_encode",
     "g_entry", "g_lock", "g_compute", "g_encode"}

(***************************************************************************)
(* C1.  Store round trip.                                                  *)
(***************************************************************************)
\* Every identifier a Submit has returned is in the store with the very
\* receipt it was returned for.
IssuedAreStored ==
    \A id \in DOMAIN issued :
        /\ id \in DOMAIN receiptStorage
        /\ receiptStorage[id] = issued[id]

\* A lookup of an identifier a Submit has returned finds the entry and
\* yields that Submit's receipt.
LookupOfIssuedFinds ==
    \A p \in Procs :
        (/\ pc[p] = "g_read"
         /\ pc'[p] = "g_unlock"
         /\ receiptID[p] \in DOMAIN issued)
        => /\ exists'[p]
           /\ receipt'[p] = issued[receiptID[p]]

\* An entry is never removed, and the entry of a returned identifier is
\* never replaced.
EntriesStay ==
    \A id \in DOMAIN receiptStorage :
        /\ id \in DOMAIN receiptStorage'
        /\ id \in DOMAIN issued => receiptStorage'[id] = receiptStorage[id]

\* C1: after any interleaving of Submit and Query-points requests, every
\* identifier a successful Submit returned for receipt r is in the store
\* with r, a later lookup of it finds r, and the entry is never removed nor
\* replaced.
C1_StoreRoundTrip ==
    /\ []IssuedAreStored
    /\ [][LookupOfIssuedFinds]_vars
    /\ [][EntriesStay]_vars

\* Two Submits have returned identifiers for different receipts, and a
\* lookup of one of them has just read the map.
C1_Witness ==
    /\ Cardinality(DOMAIN issued) >= 2
    /\ \E a, b \in DOMAIN issued : issued[a] # issued[b]
    /\ \E p \in Procs :
          /\ pc[p] = "g_unlock"
          /\ receiptID[p] \in DOMAIN issued
          /\ exists[p]
          /\ receipt[p] = issued[receiptID[p]]

(***************************************************************************)
(* C4.  An invalid submission leaves the store untouched.                  *)
(***************************************************************************)
\* Every stored receipt has the five fields, and a submission that must be
\* refused has ended in a client error without an identifier.
RefusedAndStoredValid ==
    /\ \A id \in DOMAIN receiptStorage : HasFiveFields(receiptStorage[id])
    /\ \A p \in Procs :
          MustBeRefused(request[p])
          => /\ pc[p] = "done"
             /\ response[p].status \in {400, 405}
             /\ response[p].id = <<>>

\* The step that reads a submission that must be refused changes neither the
\* store nor the identifiers drawn nor the identifiers returned.
RefusalLeavesStore ==
    \A p \in Procs :
        (pc[p] = "p_entry" /\ MustBeRefused(request'[p]))
        => /\ receiptStorage' = receiptStorage
           /\ minted' = minted
           /\ issued' = issued

\* C4: a Submit whose receipt lacks one of the five fields, whose body does
\* not decode or whose method is not POST is answered with a client error,
\* gets no identifier and adds no entry; every stored receipt has the five
\* fields.
C4_InvalidSubmitLeavesStore ==
    /\ []RefusedAndStoredValid
    /\ [][RefusalLeavesStore]_vars

\* A receipt without its total has been refused while the store holds an
\* entry.
C4_Witness ==
    /\ receiptStorage # EmptyStorage
    /\ \E p \in Procs :
          /\ pc[p] = "done"
          /\ request[p].kind = "process"
          /\ request[p].method = "POST"
          /\ request[p].decodes
          /\ request[p].body.TotalAmount = <<>>
          /\ response[p].status = 400

(***************************************************************************)
(* C5.  Not found.                                                         *)
(***************************************************************************)
\* C5: a Query-points request for a well-formed identifier under which no
\* entry was ever inserted is answered with NotFound, whatever else is
\* stored or being inserted.
C5_NotFound ==
    [][\A p \in Procs :
          (/\ pc[p] = "g_compute"
           /\ pc'[p] # "g_compute"
           /\ ValidReceiptID(receiptID[p])
           /\ receiptID[p] \notin DOMAIN receiptStorage)
          => /\ pc'[p] = "done"
             /\ response'[p] = ErrorResponse(404)]_vars

\* A request has been answered NotFound while the store holds an entry and
\* another Submit is between its Lock and its Unlock.
C5_Witness ==
    /\ receiptStorage # EmptyStorage
    /\ \E p, q \in Procs :
          /\ pc[p] = "done"
          /\ response[p].status = 404
          /\ pc[q] = "p_assigning"

(***************************************************************************)
(* C6.  Serialized store access.                                           *)
(***************************************************************************)
\* C6: every read and write of receiptStorage is done by the holder of
\* storageMutex, at most one request is between Lock and Unlock, no map
\* access meets an assignment under way, and what a Get has read is what
\* the map holds for as long as the Get keeps the mutex.
C6_SerializedAccess ==
    /\ \A p \in Procs : pc[p] \in MapAccessPlaces => storageMutex = p
    /\ Cardinality({p \in Procs : pc[p] \in LockedPlaces}) <= 1
    /\ ~fatal
    /\ \A p \in Procs : pc[p] \in {"p_assign", "g_read"} => ~hashWriting
    /\ \A p \in Procs :
          pc[p] = "g_unlock"
          => /\ exists[p] = (receiptID[p] \in DOMAIN receiptStorage)
             /\ exists[p] => receipt[p] = receiptStorage[receiptID[p]]

\* An assignment to the map is under way while a Get of the same identifier
\* waits for the mutex.
C6_Witness ==
    \E p, q \in Procs :
        /\ pc[p] = "p_assigning"
        /\ pc[q] = "g_lock"
        /\ receiptID[q] = receiptID[p]

(***************************************************************************)
(* C9.  Lock scope.                                                        *)
(***************************************************************************)
\* C9: a request that is decoding or validating its input, generating an
\* identifier, running computePoints or encoding its response does not hold
\* storageMutex; the mutex is held only around the map write of Insert or
\* the map read of Get.
C9_LockScope ==
    \A p \in Procs :
        /\ pc[p] \in UnlockedPlaces \cup {"idle", "done"} => storageMutex # p
        /\ storageMutex = p => pc[p] \in LockedPlaces

\* One request is about to run computePoints on a receipt it found while
\* another holds the mutex in the middle of its map write.
C9_Witness ==
    \E p, q \in Procs :
        /\ pc[p] = "g_compute"
        /\ exists[p]
        /\ pc[q] = "p_assigning"
        /\ storageMutex = q

(***************************************************************************)
(* C10.  No deadlock, no lock leak, every request answered.                *)
(***************************************************************************)
\* A request that asks for the mutex gets it.
LockIsAcquired ==
    \A p \in Procs : (pc[p] \in {"p_lock", "g_lock"}) ~> (storageMutex = p)

\* Whoever has the mutex releases it.
LockIsReleased ==
    \A p \in Procs : (storageMutex = p) ~> (storageMutex # p)

\* A started request returns.
RequestReturns ==
    \A p \in Procs : (pc[p] \notin {"idle", "done"}) ~> (pc[p] = "done")

\* A request that has returned has written a response.
ReturnedWithResponse ==
    \A p \in Procs :
        pc[p] = "done" => response[p].status \in {200, 400, 404, 405}

\* No request that has returned holds the mutex.
NoLockLeak == \A p \in Procs : pc[p] = "done" => storageMutex # p

\* C10: under fair scheduling every request that asks for storageMutex gets
\* it, every acquisition is followed by a release, every started request
\* completes with a response, and a request that ended in NotFound or in an
\* abort of computePoints has not kept the mutex.
C10_NoDeadlockAllAnswered ==
    /\ LockIsAcquired
    /\ LockIsReleased
    /\ RequestReturns
    /\ []NoLockLeak
    /\ []ReturnedWithResponse

\* The part of C10 about the mutex alone.
C10_LockPart ==
    /\ LockIsAcquired
    /\ LockIsReleased
    /\ RequestReturns
    /\ []NoLockLeak

(***************************************************************************)
(* The scoring rules of the specification, over the values a well-formed   *)
(* receipt writes: cents, day of month, hour.                              *)
(***************************************************************************)
\* YYYY-MM-DD
WellFormedDate(d) ==
    /\ Len(d) = 10
    /\ d[5] = "-" /\ d[8] = "-"
    /\ \A i \in {1, 2, 3, 4, 6, 7, 9, 10} : IsDigit(d[i])

\* HH:MM
WellFormedTime(t) ==
    /\ Len(t) = 5
    /\ t[3] = ":"
    /\ \A i \in {1, 2, 4, 5} : IsDigit(t[i])

\* Decimal text with two cent digits: digits, a point, two digits.
WellFormedAmount(a) ==
    /\ Len(a) >= 4
    /\ a[Len(a) - 2] = "."
    /\ \A i \in (1..Len(a)) \ {Len(a) - 2} : IsDigit(a[i])

WellFormedReceipt(r) ==
    /\ WellFormedDate(r.DateOfPurchase)
    /\ WellFormedTime(r.TimeOfPurchase)
    /\ WellFormedAmount(r.TotalAmount)
    /\ \A i \in 1..Len(r.PurchasedItems) :
          WellFormedAmount(r.PurchasedItems[i].Price)

\* The number a sequence of decimal digits writes.
RECURSIVE DigitsValue(_)
DigitsValue(ds) ==
    IF ds = <<>> THEN 0
    ELSE 10 * DigitsValue(SubSeq(ds, 1, Len(ds) - 1)) + DigitVal(ds[Len(ds)])

\* The amount in cents.
Cents(a) ==
    100 * DigitsValue(SubSeq(a, 1, Len(a) - 3))
        + 10 * DigitVal(a[Len(a) - 1]) + DigitVal(a[Len(a)])

DayOfMonth(d) == 10 * DigitVal(d[9]) + DigitVal(d[10])

HourOfDay(t) == 10 * DigitVal(t[1]) + DigitVal(t[2])

AsciiAlphanumerics ==
    LowerLetters \cup UpperLetters \cup {Digits[i] : i \in 1..Len(Digits)}

\* Rule 1: the ASCII letters and digits of the retailer.
RuleRetailer(r) ==
    Cardinality({i \in 1..Len(r.StoreName) :
                    r.StoreName[i] \in AsciiAlphanumerics})

\* Rule 2: 50 if the total ends with ".00".
RuleRoundDollar(r) == IF Cents(r.TotalAmount) % 100 = 0 THEN 50 ELSE 0

\* Rule 3: 25 if the total is a multiple of 0.25.
RuleQuarter(r) == IF Cents(r.TotalAmount) % 25 = 0 THEN 25 ELSE 0

\* Rule 4: 5 for every two items.
RulePairs(r) == 5 * (Len(r.PurchasedItems) \div 2)

\* Rule 5, one item: ceil(price * 0.2) if the trimmed description's length,
\* counted in bytes, is a multiple of 3.
RuleItem(item) ==
    IF ByteLen(TrimSpace(item.Description)) % 3 = 0
    THEN (Cents(item.Price) + 499) \div 500
    ELSE 0

RECURSIVE SumOver(_, _)
SumOver(f, n) == IF n = 0 THEN 0 ELSE f[n] + SumOver(f, n - 1)

\* Rule 5: the sum over the items.
RuleDescriptions(r) ==
    SumOver([i \in 1..Len(r.PurchasedItems) |-> RuleItem(r.PurchasedItems[i])],
            Len(r.PurchasedItems))

\* Rule 6: 6 if the day of month is odd.
RuleOddDay(r) == IF DayOfMonth(r.DateOfPurchase) % 2 = 1 THEN 6 ELSE 0

\* Rule 7: 10 if 14 <= hour < 16.
RuleAfternoon(r) ==
    IF 14 <= HourOfDay(r.TimeOfPurchase) /\ HourOfDay(r.TimeOfPurchase) < 16
    THEN 10 ELSE 0

RuleSum(r) ==
    RuleRetailer(r) + RuleRoundDollar(r) + RuleQuarter(r) + RulePairs(r)
        + RuleDescriptions(r) + RuleOddDay(r) + RuleAfternoon(r)

(***************************************************************************)
(* C7.  Rule additivity.                                                   *)
(***************************************************************************)
\* C7: for every receipt with a well-formed date, time, total and prices,
\* computePoints returns exactly the sum of the seven rule contributions,
\* each applied once and none skipped.
C7_RuleAdditivity ==
    (scoreDone /\ WellFormedReceipt(scoreReceipt))
    => /\ ~scoreResult.panicked
       /\ scoreResult.points = Int64(RuleSum(scoreReceipt))

\* A well-formed receipt to which every one of the seven rules gives points
\* has been scored.
C7_Witness ==
    /\ scoreDone
    /\ WellFormedReceipt(scoreReceipt)
    /\ RuleRetailer(scoreReceipt) > 0
    /\ RuleRoundDollar(scoreReceipt) = 50
    /\ RuleQuarter(scoreReceipt) = 25
    /\ RulePairs(scoreReceipt) > 0
    /\ RuleDescriptions(scoreReceipt) > 0
    /\ RuleOddDay(scoreReceipt) = 6
    /\ RuleAfternoon(scoreReceipt) = 10
    /\ scoreResult.points = Int64(RuleSum(scoreReceipt))

(***************************************************************************)
(* C2.  computePoints never aborts on a receipt with the five fields.      *)
(***************************************************************************)
\* C2: for a receipt whose retailer, date, time and total are non-empty and
\* whose item list is non-empty, computePoints returns an integer and does
\* not abort, whatever the fields hold.
C2_ScoreNeverAborts ==
    (scoreDone /\ HasFiveFields(scoreReceipt)) => ~scoreResult.panicked

(***************************************************************************)
(* C3.  Permissive parsing.                                                *)
(***************************************************************************)
\* What the rules give when a rule whose sub-field does not parse gives 0
\* and every other rule gives what it gives anyway.
PermissiveItem(item) ==
    IF ParseFloat(item.Price).ok THEN itemPoints(item) ELSE Int64(0)

RECURSIVE PermissiveItems(_)
PermissiveItems(items) ==
    IF items = <<>> THEN Int64(0)
    ELSE Add64(PermissiveItem(Head(items)), PermissiveItems(Tail(items)))

PermissiveSum(r) ==
    Add64(Int64(retailerPoints(r)
                    + roundDollarPoints(r)
                    + (IF ParseFloat(r.TotalAmount).ok
                       THEN quarterPoints(r) ELSE 0)
                    + pairPoints(r)
                    + (IF Atoi(dateParts(r)[3]).ok THEN dayPoints(r) ELSE 0)
                    + (IF Atoi(timeParts(r)[1]).ok THEN hourPoints(r) ELSE 0)),
          PermissiveItems(r.PurchasedItems))

\* C3: when the total, an item's price, the day or the hour does not parse,
\* the rule that uses it contributes 0 and the other rules contribute as
\* usual.  (Stated of the runs that return, so that it does not depend on
\* C2.)
C3_UnparsableContributesZero ==
    (scoreDone /\ ~scoreResult.panicked)
    => scoreResult.points = PermissiveSum(scoreReceipt)

\* The four cases of C3 one by one: what the rule of a sub-field that does
\* not parse has added.
Scored == scoreDone /\ ~scoreResult.panicked

C3_TotalCase ==
    (Scored /\ ~ParseFloat(scoreReceipt.TotalAmount).ok)
    => quarterPoints(scoreReceipt) = 0

C3_PriceCase ==
    Scored
    => \A i \in 1..Len(scoreReceipt.PurchasedItems) :
          ~ParseFloat(scoreReceipt.PurchasedItems[i].Price).ok
          => itemPoints(scoreReceipt.PurchasedItems[i]) = Int64(0)

C3_DayCase ==
    (Scored /\ ~Atoi(dateParts(scoreReceipt)[3]).ok)
    => dayPoints(scoreReceipt) = 0

C3_HourCase ==
    (Scored /\ ~Atoi(timeParts(scoreReceipt)[1]).ok)
    => hourPoints(scoreReceipt) = 0

(***************************************************************************)
(* C8.  The description-length scenario.                                   *)
(***************************************************************************)
\* What the rules other than the description-length rule add.
OtherRules(r) ==
    retailerPoints(r) + roundDollarPoints(r) + quarterPoints(r)
        + pairPoints(r) + dayPoints(r) + hourPoints(r)

\* A receipt whose only item is "Mountain Dew 12PK" at "6.49" has been
\* scored.
MountainDewScored ==
    /\ scoreDone
    /\ ~scoreResult.panicked
    /\ scoreReceipt.PurchasedItems = <<MountainDew>>

\* C8 as written: the trimmed description has length 18, a multiple of 3,
\* and the rule contributes ceil(6.49 * 0.2) = 2 points.
C8_AsWritten ==
    MountainDewScored
    => /\ ByteLen(TrimSpace(MountainDew.Description)) = 18
       /\ scoreResult.points = Int64(OtherRules(scoreReceipt) + 2)

\* C8 as amended: the trimmed description "Mountain Dew 12PK" has length
\* 17, which is no multiple of 3, and the description-length rule
\* contributes 0 points for the item.
C8_MountainDewContributesNothing ==
    MountainDewScored
    => /\ ByteLen(TrimSpace(MountainDew.Description)) = 17
       /\ scoreResult.points = Int64(OtherRules(scoreReceipt))

\* The README's receipt itself has been scored: 12 points.
C8_Witness ==
    /\ MountainDewScored
    /\ scoreReceipt = ExampleReceipt
    /\ scoreResult.points = Int64(12)
====
